---------------------------- MODULE Spec2Model ----------------------------
(***************************************************************************)
(* Model of lemma_token_builder.py: the HTML text extractor, the Russian   *)
(* word tokenizer, and main(): collection of tokens from pages/*.txt,      *)
(* morphological filtering, grouping by lemma and the two output files.    *)
(*                                                                         *)
(* Characters are one-letter strings standing for code points:             *)
(*   "a" "b"  U+0430, U+0431: two letters of the range U+0430..U+044F      *)
(*   "A" "B"  U+0410, U+0411: their capitals                               *)
(*   "e" "E"  U+0451 (small io) and U+0401 (capital io)                    *)
(*   "v"      U+1C80 (CYRILLIC SMALL LETTER ROUNDED VE)                    *)
(*   "z"      a Latin letter, "7" a decimal digit, " " a space             *)
(* A text, a token and a lemma are sequences of characters.                *)
(***************************************************************************)
EXTENDS Integers, Sequences, FiniteSets, TLC

VARIABLES
    \* HTMLTextExtractor
    parts,            \* self._parts
    skip,             \* self._skip
    events,           \* history: the handler events fed so far
    \* tokenize
    text,             \* the local `text`
    tokens,           \* the local `tokens`
    tpc,              \* position inside tokenize
    \* main
    pc,               \* position inside main
    dir_exists,       \* os.path.isdir(PAGES_DIR)
    files,            \* the pages of pages/*.txt, in sorted path order
    morph,            \* the analyzer: the answers it has given so far
    nread,            \* number of files read
    all_tokens,       \* all_tokens
    ix,               \* position of the aggregation loop in all_tokens
    queries,          \* history: tokens morph.parse was called with
    tokens_set,       \* tokens_set
    lemma_to_tokens,  \* lemma_to_tokens
    tokens_out,       \* tokens.txt
    lemmas_out,       \* lemmas.txt
    wix,              \* position of the write loops
    summary,          \* the printed counts
    err               \* the exception main() ended with

exVars == <<parts, skip, events>>
tkVars == <<text, tokens, tpc>>
mnVars == <<pc, dir_exists, files, morph, nread, all_tokens, ix, queries,
            tokens_set, lemma_to_tokens, tokens_out, lemmas_out, wix,
            summary, err>>
vars == <<exVars, tkVars, mnVars>>

None == "None"

-----------------------------------------------------------------------------
(* Bounds of the model *)
MaxEvents == 4
MaxSegs == 2
MaxFiles == 2

-----------------------------------------------------------------------------
(* Sequences *)
Range(s) == {s[i] : i \in 1..Len(s)}

SeqsUpTo(S, n) == UNION {[1..k -> S] : k \in 0..n}

RECURSIVE Repeat(_, _)
Repeat(c, n) == IF n = 0 THEN <<>> ELSE <<c>> \o Repeat(c, n - 1)

RECURSIVE Concat(_)
Concat(ss) == IF ss = <<>> THEN <<>> ELSE Head(ss) \o Concat(Tail(ss))

\* sep.join(ss)
RECURSIVE Join(_, _)
Join(ss, sep) ==
    IF ss = <<>> THEN <<>>
    ELSE IF Len(ss) = 1 THEN ss[1]
    ELSE ss[1] \o sep \o Join(Tail(ss), sep)

-----------------------------------------------------------------------------
(* Characters *)
Alphabet == {"a", "b", "A", "B", "e", "E", "v", "z", "7", " "}

\* ord(c)
CodePoint(c) ==
    CASE c = " " -> 32
      [] c = "7" -> 55
      [] c = "z" -> 122
      [] c = "E" -> 1025
      [] c = "A" -> 1040
      [] c = "B" -> 1041
      [] c = "a" -> 1072
      [] c = "b" -> 1073
      [] c = "e" -> 1105
      [] c = "v" -> 7296

\* str.lower() of one character
LowerChar(c) ==
    CASE c = "A" -> "a"
      [] c = "B" -> "b"
      [] c = "E" -> "e"
      [] OTHER -> c

\* str.lower()
Lower(s) == [i \in 1..Len(s) |-> LowerChar(s[i])]

\* ch.isdigit()
IsDigit(c) == c = "7"

\* The character set [U+0430-U+044F U+0451] of RE_RU_WORD as compiled with
\* re.IGNORECASE: the subject character is lowercased and looked up in the
\* set, to which the compiler has added the case-equivalent characters of its
\* members; U+1C80 is a lowercase character that shares its capital with
\* U+0432, a member of the range.
CharsetRange == {"a", "b"}
CharsetLiteral == {"e"}
CaseEquivalents == {"v"}
InCharset(c) ==
    LowerChar(c) \in CharsetRange \cup CharsetLiteral \cup CaseEquivalents

MinLen == 2
MaxLen == 40

\* End of the greedy match of the charset starting at position i: the last
\* position of the run of charset characters, i - 1 when there is none.
RECURSIVE RunEnd(_, _)
RunEnd(s, i) ==
    IF i <= Len(s) /\ InCharset(s[i]) THEN RunEnd(s, i + 1) ELSE i - 1

\* RE_RU_WORD.findall(s), scanning from position i: a match needs at least
\* MinLen characters, is greedy, and the scan resumes after it.
RECURSIVE FindAllFrom(_, _)
FindAllFrom(s, i) ==
    IF i > Len(s) THEN <<>>
    ELSE LET j == RunEnd(s, i) IN
         IF j - i + 1 >= MinLen
         THEN <<SubSeq(s, i, j)>> \o FindAllFrom(s, j + 1)
         ELSE FindAllFrom(s, i + 1)

FindAll(s) == FindAllFrom(s, 1)

\* RE_RU_WORD.fullmatch(s)
FullMatch(s) == Len(s) >= MinLen /\ \A i \in 1..Len(s) : InCharset(s[i])

\* [t for t in tokens if 2 <= len(t) <= 40]
LenFilter(ts) == SelectSeq(ts, LAMBDA t : MinLen <= Len(t) /\ Len(t) <= MaxLen)

\* tokenize(text)
tokenize(s) == LenFilter(FindAll(Lower(s)))

-----------------------------------------------------------------------------
(* HTMLTextExtractor *)
Tags == {"script", "STYLE", "noscript", "p"}

\* tag.lower()
TagLower(tag) == IF tag = "STYLE" THEN "style" ELSE tag

SkipTags == {"script", "style", "noscript"}

DataFragments == {<<>>, <<"a", "b">>, <<"B", "a", " ", "z">>}

Events ==
    [kind : {"start", "end"}, tag : Tags] \cup [kind : {"data"}, data : DataFragments]

\* handle_starttag: the new value of self._skip
StartTagSkip(sk, tag) == IF TagLower(tag) \in SkipTags THEN sk + 1 ELSE sk

\* Mutant: the guard self._skip > 0 dropped
EndTagSkip_Unguarded(sk, tag) ==
    IF TagLower(tag) \in SkipTags THEN sk - 1 ELSE sk

\* handle_endtag: the new value of self._skip
EndTagSkip(sk, tag) ==
    IF TagLower(tag) \in SkipTags /\ sk > 0 THEN sk - 1 ELSE sk

\* Mutant: the test self._skip == 0 dropped
DataParts_NoSkipTest(ps, sk, data) == IF data # <<>> THEN Append(ps, data) ELSE ps

\* handle_data: the new value of self._parts
DataParts(ps, sk, data) == IF sk = 0 /\ data # <<>> THEN Append(ps, data) ELSE ps

handle_starttag(tag) ==
    /\ Len(events) < MaxEvents
    /\ skip' = StartTagSkip(skip, tag)
    /\ parts' = parts
    /\ events' = Append(events, [kind |-> "start", tag |-> tag])
    /\ UNCHANGED <<tkVars, mnVars>>

handle_endtag(tag) ==
    /\ Len(events) < MaxEvents
    /\ skip' = EndTagSkip(skip, tag)
    /\ parts' = parts
    /\ events' = Append(events, [kind |-> "end", tag |-> tag])
    /\ UNCHANGED <<tkVars, mnVars>>

handle_data(data) ==
    /\ Len(events) < MaxEvents
    /\ parts' = DataParts(parts, skip, data)
    /\ skip' = skip
    /\ events' = Append(events, [kind |-> "data", data |-> data])
    /\ UNCHANGED <<tkVars, mnVars>>

\* get_text()
get_text(ps) == Join(ps, <<" ">>)

\* The extractor after the events evs: <<_parts, _skip>>
RECURSIVE Feed(_, _, _)
Feed(evs, ps, sk) ==
    IF evs = <<>> THEN <<ps, sk>>
    ELSE LET e == Head(evs) IN
         CASE e.kind = "start" -> Feed(Tail(evs), ps, StartTagSkip(sk, e.tag))
           [] e.kind = "end" -> Feed(Tail(evs), ps, EndTagSkip(sk, e.tag))
           [] e.kind = "data" -> Feed(Tail(evs), DataParts(ps, sk, e.data), sk)

\* html_to_text(html), html given as the events the parser makes of it
html_to_text(evs) == get_text(Feed(evs, <<>>, 0)[1])

-----------------------------------------------------------------------------
(* tokenize, step by step *)
RunLens == {1, MinLen, MaxLen, MaxLen + 1}

Segments == [c : Alphabet, n : RunLens]

Expand(segs) == Concat([i \in 1..Len(segs) |-> Repeat(segs[i].c, segs[i].n)])

Texts == {Expand(segs) : segs \in SeqsUpTo(Segments, MaxSegs)}

TokLower ==
    /\ tpc = "lower"
    /\ text' = Lower(text)
    /\ tokens' = tokens
    /\ tpc' = "findall"
    /\ UNCHANGED <<exVars, mnVars>>

TokFindAll ==
    /\ tpc = "findall"
    /\ tokens' = FindAll(text)
    /\ text' = text
    /\ tpc' = "filter"
    /\ UNCHANGED <<exVars, mnVars>>

TokLenFilter ==
    /\ tpc = "filter"
    /\ tokens' = LenFilter(tokens)
    /\ text' = text
    /\ tpc' = "return"
    /\ UNCHANGED <<exVars, mnVars>>

-----------------------------------------------------------------------------
(* main *)
EmptyDict == [x \in {} |-> {}]

\* sorted(S) for a set of strings: by code points, a proper prefix first
RECURSIVE LexLess(_, _)
LexLess(s, t) ==
    IF s = <<>> THEN t # <<>>
    ELSE IF t = <<>> THEN FALSE
    ELSE IF CodePoint(s[1]) # CodePoint(t[1]) THEN CodePoint(s[1]) < CodePoint(t[1])
    ELSE LexLess(Tail(s), Tail(t))

RECURSIVE Sorted(_)
Sorted(S) ==
    IF S = {} THEN <<>>
    ELSE LET m == CHOOSE x \in S : \A y \in S \ {x} : LexLess(x, y)
         IN <<m>> \o Sorted(S \ {m})

\* The pages a directory may hold, each as the handler events of its markup
Data(d) == [kind |-> "data", data |-> d]
StartTag(t) == [kind |-> "start", tag |-> t]
EndTag(t) == [kind |-> "end", tag |-> t]
Pages ==
    { <<Data(<<"a", "b">>)>>,
      <<Data(<<"B", "a", " ", "z">>)>>,
      <<Data(<<"a", "b">>), StartTag("p"), Data(<<"B", "a", " ", "z">>)>>,
      <<StartTag("script"), Data(<<"a", "b">>), EndTag("script"),
        Data(<<"B", "a", " ", "z">>), Data(<<"B", "a", " ", "z">>)>>,
      <<Data(<<>>), StartTag("STYLE"), Data(<<"a", "b">>)>> }

\* What morph.parse(tok) may return: a ranked list of parses, each with
\* tag.POS and normal_form, or an exception
Parse(pos, nf) == [POS |-> pos, normal_form |-> nf]
Returned(ps) == [raised |-> FALSE, parses |-> ps]
Raised == [raised |-> TRUE, parses |-> <<>>]
Lemmas ==
    { <<"a", "b">>, <<"b", "a">>, <<"A", "e">>, <<"a">>, <<"a", "z">>,
      <<"v", "v">>, <<"b", "7">>, Repeat("a", MaxLen), Repeat("a", MaxLen + 1) }
Answers ==
    {Raised, Returned(<<>>)}
    \cup {Returned(<<Parse("NOUN", nf)>>) : nf \in Lemmas}
    \cup {Returned(<<Parse(pos, <<"a", "b">>)>>) :
            pos \in {"PREP", "CONJ", "PRCL", "INTJ", None}}
    \cup {Returned(<<Parse("PREP", <<"a", "b">>), Parse("NOUN", <<"a", "b">>)>>),
          Returned(<<Parse("VERB", <<"a", "b">>), Parse("CONJ", <<"b", "a">>)>>)}

\* morph.parse(tok): the analyzer is a dictionary lookup, so it answers a
\* token it has answered before the same way
morph_parse(tok) == IF tok \in DOMAIN morph THEN {morph[tok]} ELSE Answers

bad_pos == {"PREP", "CONJ", "PRCL", "INTJ"}

NoError == [type |-> None, msg |-> None]
NoFile == [exists |-> FALSE, lines |-> <<>>]

InitMain ==
    /\ pc = "isdir"
    /\ dir_exists \in BOOLEAN
    /\ files \in IF dir_exists THEN SeqsUpTo(Pages, MaxFiles) ELSE {<<>>}
    /\ morph = EmptyDict
    /\ nread = 0 /\ all_tokens = <<>> /\ ix = 0 /\ queries = <<>>
    /\ tokens_set = {} /\ lemma_to_tokens = EmptyDict
    /\ tokens_out = NoFile /\ lemmas_out = NoFile /\ wix = 0
    /\ summary = <<>> /\ err = NoError

\* raise: main() ends with the exception
Abort(type, msg) ==
    /\ pc' = "aborted"
    /\ err' = [type |-> type, msg |-> msg]

\* if not os.path.isdir(PAGES_DIR): raise FileNotFoundError
CheckDir ==
    /\ pc = "isdir"
    /\ IF ~dir_exists
       THEN Abort("FileNotFoundError", "no directory pages/")
       ELSE pc' = "load" /\ err' = err
    /\ UNCHANGED <<dir_exists, files, morph, nread, all_tokens, ix, queries,
                   tokens_set, lemma_to_tokens, tokens_out, lemmas_out, wix,
                   summary, exVars, tkVars>>

\* morph = pymorphy2.MorphAnalyzer(path=dict_path)
LoadAnalyzer ==
    /\ pc = "load"
    /\ \/ pc' = "glob" /\ err' = err
       \/ Abort("AnalyzerLoadError", "dictionary not loaded")
    /\ UNCHANGED <<dir_exists, files, morph, nread, all_tokens, ix, queries,
                   tokens_set, lemma_to_tokens, tokens_out, lemmas_out, wix,
                   summary, exVars, tkVars>>

\* Where main goes once all_tokens is toks and the loop has done i of them
AfterToken(toks, i) == IF i < Len(toks) THEN "filter" ELSE "open_tokens"

\* Mutant: the test `if not files` dropped
Glob_NoEmptyTest ==
    /\ pc = "glob"
    /\ pc' = IF files = <<>> THEN AfterToken(all_tokens, 0) ELSE "read"
    /\ UNCHANGED <<dir_exists, files, morph, nread, all_tokens, ix, queries,
                   tokens_set, lemma_to_tokens, tokens_out, lemmas_out, wix,
                   summary, err, exVars, tkVars>>

\* files = sorted(glob.glob(...)); if not files: raise FileNotFoundError
Glob ==
    /\ pc = "glob"
    /\ IF files = <<>>
       THEN Abort("FileNotFoundError", "no *.txt files in pages/")
       ELSE pc' = "read" /\ err' = err
    /\ UNCHANGED <<dir_exists, files, morph, nread, all_tokens, ix, queries,
                   tokens_set, lemma_to_tokens, tokens_out, lemmas_out, wix,
                   summary, exVars, tkVars>>

\* One pass of `for path in files`: read, html_to_text, tokenize, extend
ReadFile ==
    /\ pc = "read"
    /\ nread < Len(files)
    /\ \/ /\ all_tokens' = all_tokens \o tokenize(html_to_text(files[nread + 1]))
          /\ nread' = nread + 1
          /\ pc' = IF nread' < Len(files) THEN "read" ELSE AfterToken(all_tokens', 0)
          /\ err' = err
       \/ /\ Abort("OSError", "cannot read page")
          /\ UNCHANGED <<all_tokens, nread>>
    /\ UNCHANGED <<dir_exists, files, morph, ix, queries, tokens_set,
                   lemma_to_tokens, tokens_out, lemmas_out, wix, summary,
                   exVars, tkVars>>

\* any(ch.isdigit() for ch in tok)
HasDigit(tok) == \E i \in 1..Len(tok) : IsDigit(tok[i])

\* The checks of one pass after morph.parse returned parses: whether the pass
\* reaches tokens_set.add(tok)
Keeps(parses) ==
    /\ parses # <<>>
    /\ parses[1].POS \notin bad_pos
    /\ FullMatch(parses[1].normal_form)
    /\ MinLen <= Len(parses[1].normal_form)
    /\ Len(parses[1].normal_form) <= MaxLen

\* Mutant: the token is not added
SetAdd_Forgets(S, tok) == S

\* tokens_set.add(tok)
SetAdd(S, tok) == S \cup {tok}

\* Mutant: lemma_to_tokens[lemma] = {tok}, the earlier tokens of the lemma lost
DictAdd_Overwrites(d, lemma, tok) ==
    [x \in DOMAIN d \cup {lemma} |-> IF x = lemma THEN {tok} ELSE d[x]]

\* Mutant: a new lemma replaces the dictionary instead of joining it
DictAdd_Resets(d, lemma, tok) ==
    IF lemma \in DOMAIN d
    THEN [d EXCEPT ![lemma] = @ \cup {tok}]
    ELSE [x \in {lemma} |-> {tok}]

\* Mutant: the key is created but the token is added only to a new key
DictAdd_OnlyNewKeys(d, lemma, tok) ==
    IF lemma \in DOMAIN d
    THEN d
    ELSE [x \in DOMAIN d \cup {lemma} |-> IF x = lemma THEN {tok} ELSE d[x]]

\* if lemma not in lemma_to_tokens: lemma_to_tokens[lemma] = set()
\* lemma_to_tokens[lemma].add(tok)
DictAdd(d, lemma, tok) ==
    LET d1 == IF lemma \notin DOMAIN d
              THEN [x \in DOMAIN d \cup {lemma} |-> IF x = lemma THEN {} ELSE d[x]]
              ELSE d
    IN [d1 EXCEPT ![lemma] = @ \cup {tok}]

\* One pass of `for tok in all_tokens`
FilterToken ==
    /\ pc = "filter"
    /\ ix < Len(all_tokens)
    /\ LET tok == all_tokens[ix + 1] IN
       IF HasDigit(tok)
       THEN /\ ix' = ix + 1
            /\ pc' = AfterToken(all_tokens, ix')
            /\ UNCHANGED <<morph, queries, tokens_set, lemma_to_tokens, err>>
       ELSE \E ans \in morph_parse(tok) :
            /\ queries' = Append(queries, tok)
            /\ morph' = [t \in DOMAIN morph \cup {tok} |->
                            IF t = tok THEN ans ELSE morph[t]]
            /\ IF ans.raised
               THEN /\ Abort("AnalyzerError", "parse failed")
                    /\ UNCHANGED <<ix, tokens_set, lemma_to_tokens>>
               ELSE /\ ix' = ix + 1
                    /\ pc' = AfterToken(all_tokens, ix')
                    /\ err' = err
                    /\ IF Keeps(ans.parses)
                       THEN /\ tokens_set' = SetAdd(tokens_set, tok)
                            /\ lemma_to_tokens' =
                                 DictAdd(lemma_to_tokens,
                                         ans.parses[1].normal_form, tok)
                       ELSE UNCHANGED <<tokens_set, lemma_to_tokens>>
    /\ UNCHANGED <<dir_exists, files, nread, all_tokens, tokens_out,
                   lemmas_out, wix, summary, exVars, tkVars>>

\* tokens_list = sorted(tokens_set)
tokens_list == Sorted(tokens_set)

\* sorted(lemma_to_tokens.keys())
lemma_keys == Sorted(DOMAIN lemma_to_tokens)

\* t + "\n"
TokenLine(t) == t \o <<"\n">>

\* lemma + " " + " ".join(toks) + "\n"
LemmaLine(lemma) ==
    lemma \o <<" ">> \o Join(Sorted(lemma_to_tokens[lemma]), <<" ">>) \o <<"\n">>

\* A failed open or write: OSError leaves the file as it is
IOFails ==
    /\ pc \in {"open_tokens", "write_tokens", "open_lemmas", "write_lemmas"}
    /\ Abort("OSError", pc)
    /\ UNCHANGED <<dir_exists, files, morph, nread, all_tokens, ix, queries,
                   tokens_set, lemma_to_tokens, tokens_out, lemmas_out, wix,
                   summary, exVars, tkVars>>

\* with open(TOKENS_OUT, "w", encoding="utf-8") as f
OpenTokens ==
    /\ pc = "open_tokens"
    /\ tokens_out' = [exists |-> TRUE, lines |-> <<>>]
    /\ wix' = 0
    /\ pc' = IF tokens_list = <<>> THEN "open_lemmas" ELSE "write_tokens"
    /\ UNCHANGED <<dir_exists, files, morph, nread, all_tokens, ix, queries,
                   tokens_set, lemma_to_tokens, lemmas_out, summary, err,
                   exVars, tkVars>>

\* One pass of `for t in tokens_list`: f.write(t + "\n")
WriteToken ==
    /\ pc = "write_tokens"
    /\ wix < Len(tokens_list)
    /\ tokens_out' = [tokens_out EXCEPT
                        !.lines = Append(@, TokenLine(tokens_list[wix + 1]))]
    /\ wix' = wix + 1
    /\ pc' = IF wix' < Len(tokens_list) THEN "write_tokens" ELSE "open_lemmas"
    /\ UNCHANGED <<dir_exists, files, morph, nread, all_tokens, ix, queries,
                   tokens_set, lemma_to_tokens, lemmas_out, summary, err,
                   exVars, tkVars>>

\* print: the counts reported
Report == <<Len(tokens_list), Cardinality(DOMAIN lemma_to_tokens)>>

\* with open(LEMMAS_OUT, "w", encoding="utf-8") as f
OpenLemmas ==
    /\ pc = "open_lemmas"
    /\ lemmas_out' = [exists |-> TRUE, lines |-> <<>>]
    /\ wix' = 0
    /\ IF lemma_keys = <<>>
       THEN pc' = "done" /\ summary' = Report
       ELSE pc' = "write_lemmas" /\ summary' = summary
    /\ UNCHANGED <<dir_exists, files, morph, nread, all_tokens, ix, queries,
                   tokens_set, lemma_to_tokens, tokens_out, err,
                   exVars, tkVars>>

\* One pass of `for lemma in sorted(lemma_to_tokens.keys())`; the prints
\* follow the last one
WriteLemma ==
    /\ pc = "write_lemmas"
    /\ wix < Len(lemma_keys)
    /\ lemmas_out' = [lemmas_out EXCEPT
                        !.lines = Append(@, LemmaLine(lemma_keys[wix + 1]))]
    /\ wix' = wix + 1
    /\ IF wix' < Len(lemma_keys)
       THEN pc' = "write_lemmas" /\ summary' = summary
       ELSE pc' = "done" /\ summary' = Report
    /\ UNCHANGED <<dir_exists, files, morph, nread, all_tokens, ix, queries,
                   tokens_set, lemma_to_tokens, tokens_out, err,
                   exVars, tkVars>>

-----------------------------------------------------------------------------
(* Specifications of the two components on their own *)
MainIdle ==
    /\ pc = "idle" /\ dir_exists = FALSE /\ files = <<>> /\ morph = EmptyDict
    /\ nread = 0 /\ all_tokens = <<>> /\ ix = 0 /\ queries = <<>>
    /\ tokens_set = {} /\ lemma_to_tokens = EmptyDict
    /\ tokens_out = NoFile /\ lemmas_out = NoFile /\ wix = 0
    /\ summary = <<>> /\ err = NoError

ExtractorIdle == parts = <<>> /\ skip = 0 /\ events = <<>>

TokenizeIdle == text = <<>> /\ tokens = <<>> /\ tpc = "idle"

InitExtractor == ExtractorIdle /\ TokenizeIdle /\ MainIdle

NextExtractor ==
    \/ \E tag \in Tags : handle_starttag(tag)
    \/ \E tag \in Tags : handle_endtag(tag)
    \/ \E data \in DataFragments : handle_data(data)

SpecExtractor == InitExtractor /\ [][NextExtractor]_vars

InitTokenize ==
    /\ text \in Texts /\ tokens = <<>> /\ tpc = "lower"
    /\ ExtractorIdle /\ MainIdle

NextTokenize == TokLower \/ TokFindAll \/ TokLenFilter

SpecTokenize == InitTokenize /\ [][NextTokenize]_vars

-----------------------------------------------------------------------------
(* Specification of main *)
Init == InitMain /\ ExtractorIdle /\ TokenizeIdle

Next ==
    \/ CheckDir
    \/ LoadAnalyzer
    \/ Glob
    \/ ReadFile
    \/ FilterToken
    \/ OpenTokens
    \/ WriteToken
    \/ OpenLemmas
    \/ WriteLemma
    \/ IOFails

Spec == Init /\ [][Next]_vars

-----------------------------------------------------------------------------
(* Claims about HTMLTextExtractor, under SpecExtractor *)
IsSkipStart(e) == e.kind = "start" /\ TagLower(e.tag) \in SkipTags
IsSkipEnd(e) == e.kind = "end" /\ TagLower(e.tag) \in SkipTags

Indices(evs, Test(_)) == SelectSeq([i \in 1..Len(evs) |-> i], Test)

\* Starts minus ends among the first n events
PlainCounter(evs, n) ==
    Cardinality({i \in 1..n : IsSkipStart(evs[i])})
    - Cardinality({i \in 1..n : IsSkipEnd(evs[i])})

\* The data fragments that arrived while PlainCounter was 0
PlainEmitted(evs) ==
    LET idx == Indices(evs, LAMBDA i : evs[i].kind = "data"
                                       /\ PlainCounter(evs, i - 1) = 0)
    IN [k \in 1..Len(idx) |-> evs[idx[k]].data]

\* C3 as stated: every skip end tag decrements the counter and a data fragment
\* is appended exactly when the counter is 0.
C3_EveryEndTagDecrements ==
    /\ skip = PlainCounter(events, Len(events))
    /\ parts = PlainEmitted(events)

\* A counter that an end tag decrements only while it is positive
RECURSIVE FlooredCounter(_, _)
FlooredCounter(evs, n) ==
    IF n = 0 THEN 0
    ELSE LET c == FlooredCounter(evs, n - 1) IN
         IF IsSkipStart(evs[n]) THEN c + 1
         ELSE IF IsSkipEnd(evs[n]) /\ c > 0 THEN c - 1
         ELSE c

FlooredEmitted(evs) ==
    LET idx == Indices(evs, LAMBDA i : evs[i].kind = "data"
                                       /\ evs[i].data # <<>>
                                       /\ FlooredCounter(evs, i - 1) = 0)
    IN [k \in 1..Len(idx) |-> evs[idx[k]].data]

\* C3 amended: a start tag named script, style or noscript increments the skip
\* counter, an end tag with one of those names decrements it only while it is
\* positive, and the collected text is, in arrival order, the non-empty data
\* fragments that arrived while the counter was 0.
C3_EndTagDecrementsWhilePositive ==
    /\ skip = FlooredCounter(events, Len(events))
    /\ parts = FlooredEmitted(events)

\* A skipped region was entered and left: the fragment inside it was dropped
\* and the fragment after it collected.
C3_Witness ==
    /\ Len(events) = 4
    /\ IsSkipStart(events[1])
    /\ events[2].kind = "data" /\ events[2].data # <<>>
    /\ IsSkipEnd(events[3])
    /\ events[4].kind = "data" /\ events[4].data # <<>>
    /\ parts = <<events[4].data>>
    /\ skip = 0

\* The last event fed, when this step fed one
Fed == events'[Len(events')]

\* C9: the skip counter is never negative; a script, style or noscript end tag
\* that arrives while the counter is 0 changes neither the counter nor the
\* collected text, and a non-empty data fragment arriving right after it is
\* collected.
C9_StrayEndTagIgnored ==
    [][/\ skip >= 0 /\ skip' >= 0
       /\ (IsSkipEnd(Fed) /\ skip = 0) => (skip' = 0 /\ parts' = parts)
       /\ (/\ events # <<>> /\ IsSkipEnd(events[Len(events)]) /\ skip = 0
           /\ Fed.kind = "data" /\ Fed.data # <<>>)
          => parts' = Append(parts, Fed.data)]_vars

\* An end tag arrived before any start tag and the text after it was collected.
C9_Witness ==
    /\ Len(events) >= 2
    /\ IsSkipEnd(events[1])
    /\ events[2].kind = "data" /\ events[2].data # <<>>
    /\ parts # <<>> /\ parts[1] = events[2].data
    /\ skip = 0

-----------------------------------------------------------------------------
(* Claims about tokenize, under SpecTokenize *)
\* The letters U+0430..U+044F and U+0451
RussianLower == {"a", "b", "e"}

IsRun(s, i, j) ==
    /\ \A k \in i..j : s[k] \in RussianLower
    /\ i = 1 \/ s[i - 1] \notin RussianLower
    /\ j = Len(s) \/ s[j + 1] \notin RussianLower

\* The maximal runs of Russian letters of s, left to right, that have 2 to 40
\* letters
RunsOfRussianLetters(s) ==
    LET idx == Indices(s, LAMBDA i :
                   \E j \in i..Len(s) :
                       IsRun(s, i, j) /\ MinLen <= j - i + 1 /\ j - i + 1 <= MaxLen)
    IN [k \in 1..Len(idx) |->
           SubSeq(s, idx[k], CHOOSE j \in idx[k]..Len(s) : IsRun(s, idx[k], j))]

\* C4 as stated: tokenize returns, left to right, exactly the maximal runs of
\* the letters U+0430..U+044F and U+0451 of the lowercased text that have 2 to
\* 40 letters, so every token has 2 to 40 letters, all of them such letters.
C4_TokensAreRussianRuns ==
    tpc = "return" =>
        /\ tokens = RunsOfRussianLetters(text)
        /\ \A k \in 1..Len(tokens) :
               /\ MinLen <= Len(tokens[k]) /\ Len(tokens[k]) <= MaxLen
               /\ Range(tokens[k]) \subseteq RussianLower

-----------------------------------------------------------------------------
(* Claims about main, under Spec *)
Final == pc \in {"done", "aborted"}

MissingInput == [type |-> "FileNotFoundError", msg |-> "no directory pages/"]
NoInputFiles == [type |-> "FileNotFoundError", msg |-> "no *.txt files in pages/"]
LoadFailed == [type |-> "AnalyzerLoadError", msg |-> "dictionary not loaded"]

TokensFileOf(S) == [i \in 1..Cardinality(S) |-> Sorted(S)[i] \o <<"\n">>]

LemmasFileOf(d) ==
    [i \in 1..Cardinality(DOMAIN d) |->
        LET l == Sorted(DOMAIN d)[i]
        IN l \o <<" ">> \o Join(Sorted(d[l]), <<" ">>) \o <<"\n">>]

WrittenInFull ==
    /\ tokens_out.exists /\ tokens_out.lines = TokensFileOf(tokens_set)
    /\ lemmas_out.exists /\ lemmas_out.lines = LemmasFileOf(lemma_to_tokens)

NothingWritten == ~tokens_out.exists /\ ~lemmas_out.exists

\* C1 as stated: however a run of main() ends, either both output files are
\* written in full or neither is written at all.
C1_BothFilesOrNeither == Final => (WrittenInFull \/ NothingWritten)

\* Nothing was read, filtered or written
Untouched ==
    /\ nread = 0 /\ all_tokens = <<>>
    /\ ix = 0 /\ queries = <<>> /\ tokens_set = {}
    /\ DOMAIN lemma_to_tokens = {}
    /\ NothingWritten

\* C2 as stated: without the input directory main() ends in the missing input
\* error, with a directory holding no *.txt file it ends in the distinct no
\* input files error, both before anything is read, filtered or written.
C2_SetupErrors ==
    /\ (Final /\ ~dir_exists) => (err = MissingInput /\ Untouched)
    /\ (Final /\ dir_exists /\ files = <<>>) =>
           (err = NoInputFiles /\ err # MissingInput /\ Untouched)

\* C2 amended: without the input directory main() ends in the missing input
\* error; with a directory holding no *.txt file it ends in the distinct no
\* input files error, or in the analyzer's load failure when the analyzer,
\* which is loaded before the files are looked for, fails to load; in all of
\* these cases nothing is read, filtered or written, at any point of the run.
C2_SetupErrorsAfterLoad ==
    (~dir_exists \/ files = <<>>) =>
        /\ Untouched
        /\ pc \in {"isdir", "load", "glob", "aborted"}
        /\ (Final /\ ~dir_exists) => err = MissingInput
        /\ (Final /\ dir_exists) =>
               (err \in {NoInputFiles, LoadFailed} /\ err # MissingInput)
        /\ (pc = "aborted" /\ err = LoadFailed) => dir_exists
        /\ pc = "glob" => err = NoError

\* The run ended in the no input files error.
C2_Witness ==
    /\ pc = "aborted" /\ dir_exists /\ files = <<>>
    /\ err = NoInputFiles /\ Untouched

\* The letters U+0430..U+044F, U+0451 and their capitals
CyrillicLetters == {"a", "b", "e", "A", "B", "E"}

FunctionalPOS == {"PREP", "CONJ", "PRCL", "INTJ"}

\* The acceptance rule of the claim, given the analyzer's answer
Accepted(parses) ==
    /\ Len(parses) >= 1
    /\ parses[1].POS \notin FunctionalPOS
    /\ Len(parses[1].normal_form) \in MinLen..MaxLen
    /\ Range(parses[1].normal_form) \subseteq CyrillicLetters

\* lemma_to_tokens' is lemma_to_tokens with tok added under lemma
AddedUnder(lemma, tok) ==
    /\ DOMAIN lemma_to_tokens' = DOMAIN lemma_to_tokens \cup {lemma}
    /\ \A l \in DOMAIN lemma_to_tokens' :
           lemma_to_tokens'[l] =
               (IF l \in DOMAIN lemma_to_tokens THEN lemma_to_tokens[l] ELSE {})
               \cup (IF l = lemma THEN {tok} ELSE {})

\* C5 as stated: a pass of the aggregation loop adds the token to TokenSet and
\* under its lemma exactly when it has no digit, the analyzer returns a parse,
\* the first parse is not a functional part of speech and its normal form is 2
\* to 40 Cyrillic letters; a rejected token changes nothing and does not abort
\* the run, and the analyzer is not asked about a token with a digit.
C5_AcceptedIffAllFiltersPass ==
    [][pc = "filter" =>
        LET tok == all_tokens[ix + 1] IN
        IF \E i \in 1..Len(tok) : tok[i] = "7"
        THEN /\ queries' = queries
             /\ UNCHANGED <<tokens_set, lemma_to_tokens>>
             /\ pc' # "aborted"
        ELSE /\ queries' = Append(queries, tok)
             /\ ~morph'[tok].raised =>
                   IF Accepted(morph'[tok].parses)
                   THEN /\ tokens_set' = tokens_set \cup {tok}
                        /\ AddedUnder(morph'[tok].parses[1].normal_form, tok)
                   ELSE /\ UNCHANGED <<tokens_set, lemma_to_tokens>>
                        /\ pc' # "aborted"]_vars

\* C6: every token of a LemmaIndex value-set is in TokenSet, and no token is in
\* the value-sets of two lemmas.
C6_LemmaIndexWithinTokenSet ==
    /\ \A l \in DOMAIN lemma_to_tokens : lemma_to_tokens[l] \subseteq tokens_set
    /\ \A l1, l2 \in DOMAIN lemma_to_tokens :
           l1 # l2 => lemma_to_tokens[l1] \cap lemma_to_tokens[l2] = {}

\* Two lemmas hold tokens.
C6_Witness ==
    /\ Cardinality(DOMAIN lemma_to_tokens) = 2
    /\ Cardinality(tokens_set) = 2
    /\ ix >= 2

\* The raw tokens of the corpus, whatever the order of the files
CorpusTokens == UNION {Range(tokenize(html_to_text(files[i]))) : i \in 1..Len(files)}

LoopOver == pc \in {"open_tokens", "write_tokens", "open_lemmas", "write_lemmas", "done"}

LemmaOf(t) == morph[t].parses[1].normal_form

\* C7: once the loop is over TokenSet and LemmaIndex are determined by the set
\* of raw tokens of the corpus and the analyzer alone, not by the order of the
\* files or of the tokens, and so are the two files of a finished run.
C7_OrderIndependent ==
    LoopOver =>
        LET kept == {t \in CorpusTokens : Keeps(morph[t].parses)} IN
        /\ tokens_set = kept
        /\ DOMAIN lemma_to_tokens = {LemmaOf(t) : t \in kept}
        /\ \A l \in DOMAIN lemma_to_tokens :
               lemma_to_tokens[l] = {t \in kept : LemmaOf(t) = l}
        /\ pc = "done" =>
               /\ tokens_out.lines = TokensFileOf(kept)
               /\ lemmas_out.lines =
                      LemmasFileOf([l \in {LemmaOf(t) : t \in kept} |->
                                       {t \in kept : LemmaOf(t) = l}])

\* A finished run over two different pages whose tokens share a lemma.
C7_Witness ==
    /\ pc = "done"
    /\ Len(files) = 2 /\ files[1] # files[2]
    /\ tokenize(html_to_text(files[1])) # tokenize(html_to_text(files[2]))
    /\ Cardinality(tokens_set) = 2
    /\ Cardinality(DOMAIN lemma_to_tokens) = 1

\* The token of this pass was already met earlier in the stream
Revisit == pc = "filter" /\ all_tokens[ix + 1] \in Range(SubSeq(all_tokens, 1, ix))

\* C8: a pass of the loop over a token met before changes neither TokenSet nor
\* LemmaIndex and does not end the run, so the stream with its duplicates
\* removed ends in the same containers.
C8_RevisitChangesNothing ==
    [][Revisit => /\ UNCHANGED <<tokens_set, lemma_to_tokens>>
                  /\ pc' # "aborted"
                  /\ ix' = ix + 1]_vars

\* A kept token was met a second time, after another token of its lemma.
C8_Witness ==
    /\ ix >= 3
    /\ all_tokens[ix] \in Range(SubSeq(all_tokens, 1, ix - 1))
    /\ all_tokens[ix] \in tokens_set
    /\ Cardinality(tokens_set) = 2

\* "lemma tok tok\n" -> <<lemma, tok, tok>>
RECURSIVE SplitSpaces(_, _)
SplitSpaces(line, word) ==
    IF line = <<>> THEN <<word>>
    ELSE IF Head(line) = " " THEN <<word>> \o SplitSpaces(Tail(line), <<>>)
    ELSE SplitSpaces(Tail(line), Append(word, Head(line)))

FieldsOf(line) == SplitSpaces(SubSeq(line, 1, Len(line) - 1), <<>>)

\* C10: the union of the LemmaIndex value-sets is TokenSet and no key maps to
\* an empty set; in a finished run every line of lemmas.txt lists a token,
\* every token of tokens.txt is on exactly one line of lemmas.txt, and the
\* reported counts are the line counts of the two files.
C10_LemmaIndexCoversTokenSet ==
    /\ UNION {lemma_to_tokens[l] : l \in DOMAIN lemma_to_tokens} = tokens_set
    /\ \A l \in DOMAIN lemma_to_tokens : lemma_to_tokens[l] # {}
    /\ pc = "done" =>
           /\ \A i \in 1..Len(lemmas_out.lines) :
                  Len(FieldsOf(lemmas_out.lines[i])) >= 2
           /\ \A i \in 1..Len(tokens_out.lines) :
                  Cardinality({j \in 1..Len(lemmas_out.lines) :
                      FieldsOf(tokens_out.lines[i])[1]
                          \in Range(Tail(FieldsOf(lemmas_out.lines[j])))}) = 1
           /\ summary = <<Len(tokens_out.lines), Len(lemmas_out.lines)>>

\* A finished run that wrote two tokens, each under a lemma of its own.
C10_Witness ==
    /\ pc = "done"
    /\ Len(tokens_out.lines) = 2
    /\ Len(lemmas_out.lines) = 2
    /\ summary = <<2, 2>>

=============================================================================
